---- MODULE Spec2Model ----
(***************************************************************************)
(* Model of rstfmt/rst_extras.py: the registration of passthrough          *)
(* directives and roles into the docutils registries.                      *)
(*                                                                         *)
(* The registries are the state.  register() is a straight-line sequence   *)
(* of registry writes; every write is one step of the process that runs    *)
(* it, so that two runs can interleave write by write.  The host parser    *)
(* (docutils, sphinx) is represented by a small catalog that keeps the     *)
(* features register() depends on: a default-domain directive whose name   *)
(* the base grammar also defines ("class"), a domain role that is not a    *)
(* ReferenceRole ("expr"), a Documenter hierarchy with an intermediate     *)
(* class that keeps objtype "object".                                      *)
(***************************************************************************)
EXTENDS Naturals, Sequences, FiniteSets, TLC

VARIABLES
    directives,   \* docutils.parsers.rst.directives._directives: name -> class
    rolesReg,     \* docutils.parsers.rst.roles._role_registry: name -> callable
    pc,           \* per process: the block of register() and the next write in it
    avail,        \* what importing each optional module yields in this process
    runs,         \* number of register() runs that have returned or raised
    snapshot,     \* the registries as the first finished run left them
    invoked,      \* the last directive invocation parsed, and its outcome
    roleCall      \* the last generic_role call, and the node it returned

vars == <<directives, rolesReg, pc, avail, runs, snapshot, invoked, roleCall>>

(***************************************************************************)
(* Bounds.                                                                 *)
(***************************************************************************)
\* Optional modules that are importable at the same time, in the
\* enumerated environments (the environment with all of them is added).
MaxPresent == 2
\* register() runs in sequence.
MaxRuns == 2
\* Length of the role text passed to generic_role.
MaxTextLen == 2

Procs == {1, 2}

(***************************************************************************)
(* The host parser's catalog.                                              *)
(***************************************************************************)
\* docutils.parsers.rst.Directive: the attributes a directive class declares.
DirectiveBase ==
    [required_arguments |-> 0, optional_arguments |-> 0,
     final_argument_whitespace |-> FALSE, has_content |-> FALSE,
     option_spec |-> [kind |-> "declared", names |-> {}],
     run |-> "semantic"]

Shape(req, opt, faw, content, options) ==
    [required_arguments |-> req, optional_arguments |-> opt,
     final_argument_whitespace |-> faw, has_content |-> content,
     option_spec |-> [kind |-> "declared", names |-> options],
     run |-> "semantic"]

\* The directive classes of the host, by class name.
HostClasses ==
    [Note |-> Shape(0, 0, FALSE, TRUE, {"class", "name"}),
     Admonition |-> Shape(1, 0, TRUE, TRUE, {"class", "name"}),
     CodeBlock |-> Shape(0, 1, FALSE, TRUE, {"class", "name", "number-lines"}),
     Class |-> Shape(1, 0, TRUE, TRUE, {}),
     Role |-> Shape(0, 0, FALSE, TRUE, {}),
     ListTable |-> Shape(0, 1, TRUE, TRUE, {"header-rows", "widths"}),
     Image |-> Shape(1, 0, TRUE, FALSE, {"alt", "width"}),
     Glossary |-> Shape(0, 0, FALSE, TRUE, {"sorted"}),
     Program |-> Shape(1, 0, TRUE, FALSE, {}),
     PyFunction |-> Shape(1, 0, TRUE, TRUE, {"async", "noindex"}),
     PyClasslike |-> Shape(1, 0, TRUE, TRUE, {"final", "noindex"}),
     PyModule |-> Shape(1, 0, FALSE, TRUE, {"platform", "synopsis"}),
     CFunctionObject |-> Shape(1, 0, TRUE, TRUE, {"noindex"}),
     LiteralInclude |-> Shape(1, 0, TRUE, FALSE, {"language", "lines"}),
     TocTree |-> Shape(0, 0, FALSE, TRUE, {"maxdepth", "glob"}),
     VersionChange |-> Shape(1, 1, TRUE, TRUE, {}),
     Only |-> Shape(1, 0, TRUE, TRUE, {}),
     Highlight |-> Shape(1, 0, FALSE, FALSE, {"force", "linenothreshold"}),
     Todo |-> Shape(0, 0, TRUE, TRUE, {"class", "name"}),
     AutodocDirective |-> Shape(1, 0, TRUE, TRUE, {}),
     TabsDirective |-> Shape(0, 0, FALSE, TRUE, {}),
     TabDirective |-> Shape(0, 0, FALSE, TRUE, {}),
     GroupTabDirective |-> Shape(0, 0, FALSE, TRUE, {}),
     CodeTabDirective |-> Shape(1, 1, TRUE, TRUE, {"linenos"}),
     ClickDirective |-> Shape(1, 0, FALSE, FALSE, {"prog", "nested"}),
     ArgParseDirective |-> Shape(0, 0, FALSE, TRUE, {"module", "func"})]

\* The attributes of a host class; a class not listed keeps the base's.
ClassAttrs(cls) ==
    IF cls \in DOMAIN HostClasses THEN HostClasses[cls] ELSE DirectiveBase

\* cls.__subclasses__() for the two hierarchies register() walks.
DirectSubclasses(cls) ==
    CASE cls = "Domain" -> <<"StandardDomain", "PythonDomain", "CDomain">>
      [] cls = "Documenter" -> <<"ModuleDocumenter", "ModuleLevelDocumenter">>
      [] cls = "ModuleLevelDocumenter" -> <<"FunctionDocumenter", "ClassDocumenter">>
      [] cls = "ClassDocumenter" -> <<"ExceptionDocumenter">>
      [] OTHER -> <<>>

\* sphinx.domains.Domain subclasses: name, roles (name, callable), directives
\* (name, class), each map in its insertion order.
DomainTable ==
    [StandardDomain |->
        [name |-> "std",
         roles |-> <<<<"term", "XRefRole">>, <<"option", "XRefRole">>>>,
         directives |-> <<<<"glossary", "Glossary">>, <<"program", "Program">>>>],
     PythonDomain |->
        [name |-> "py",
         roles |-> <<<<"func", "XRefRole">>, <<"class", "XRefRole">>>>,
         directives |-> <<<<"function", "PyFunction">>, <<"class", "PyClasslike">>,
                          <<"module", "PyModule">>>>],
     CDomain |->
        [name |-> "c",
         roles |-> <<<<"func", "XRefRole">>, <<"expr", "CExprRole">>>>,
         directives |-> <<<<"function", "CFunctionObject">>>>]]

\* isinstance(role_callable, sphinx.util.docutils.ReferenceRole)
IsReferenceRole(callable) == callable \in {"XRefRole", "ReferenceRole"}

\* autodoc.Documenter subclasses: objtype.
DocumenterObjtype ==
    [ModuleDocumenter |-> "module", ModuleLevelDocumenter |-> "object",
     FunctionDocumenter |-> "function", ClassDocumenter |-> "class",
     ExceptionDocumenter |-> "exception"]

\* docutils.parsers.rst.directives._directive_registry: name -> (module, class),
\* in insertion order.
directive_registry ==
    <<<<"admonition", <<"admonitions", "Admonition">>>>,
      <<"note", <<"admonitions", "Note">>>>,
      <<"code", <<"body", "CodeBlock">>>>,
      <<"list-table", <<"tables", "ListTable">>>>,
      <<"image", <<"images", "Image">>>>,
      <<"class", <<"misc", "Class">>>>,
      <<"role", <<"misc", "Role">>>>>>

\* The canonical roles docutils registers when it is imported.
DocutilsRoles ==
    [n \in {"emphasis", "math", "pep-reference", "rfc-reference",
            "subscript", "superscript"} |-> "docutils"]

(***************************************************************************)
(* Optional third-party modules.                                           *)
(***************************************************************************)
Modules ==
    {"sphinx_tabs.tabs", "sphinx_click", "sphinxarg.ext",
     "esp_docs.esp_extensions.include_build_file",
     "esp_docs.generic_extensions.list_filter",
     "sphinxcontrib.blockdiag", "sphinxcontrib.packetdiag",
     "sphinxcontrib.rackdiag", "sphinxcontrib.seqdiag",
     "sphinxcontrib.wavedrom", "breathe.directives.class_like",
     "breathe.directives.function"}

\* "absent": importing raises ImportError; "ok": the module imports and has
\* the names register() expects; "noattr": it imports and lacks them.
Status == {"absent", "ok", "noattr"}

AllAbsent == [m \in Modules |-> "absent"]
AllOk == [m \in Modules |-> "ok"]

(***************************************************************************)
(* Helpers: dictionaries as functions, sequences of sequences.             *)
(***************************************************************************)
EmptyDict == [k \in {} |-> k]

\* d[k] = v
Put(d, k, v) == (k :> v) @@ d

RECURSIVE SeqFlat(_)
SeqFlat(ss) == IF ss = <<>> THEN <<>> ELSE Head(ss) \o SeqFlat(Tail(ss))

\* def _subclasses(cls): for _c in cls.__subclasses__(): yield _c;
\*                                                      yield from _subclasses(_c)
RECURSIVE subclasses(_)
subclasses(cls) ==
    LET direct == DirectSubclasses(cls)
    IN  SeqFlat([i \in 1..Len(direct) |->
                    <<direct[i]>> \o subclasses(direct[i])])

(***************************************************************************)
(* _add_directive                                                          *)
(***************************************************************************)
\* The class type('rstfmt_' + cls.__name__, (cls,), namespace): an attribute
\* is the namespace's when the namespace sets it and the base class's
\* otherwise; attrs comes last in the namespace and so wins over the three
\* fixed entries.
PassthroughClass(cls, attrs, raw) ==
    LET namespace ==
            attrs @@
            [option_spec |-> [kind |-> "dummy", names |-> {}],
             run |-> "passthrough",
             raw |-> raw]
    IN  namespace @@ ClassAttrs(cls) @@
        [cls |-> cls, clsname |-> "rstfmt_" \o cls]

\* A variant that subclasses whatever is already registered under the name.
add_directive_stacked(reg, name, cls, attrs, raw) ==
    IF name \in DOMAIN reg
    THEN Put(reg, name,
             [PassthroughClass(cls, attrs, raw) EXCEPT
                 !.cls = reg[name].clsname,
                 !.clsname = "rstfmt_" \o reg[name].clsname])
    ELSE Put(reg, name, PassthroughClass(cls, attrs, raw))

\* A variant that builds the class on the Directive base instead of cls.
add_directive_unshaped(reg, name, cls, attrs, raw) ==
    Put(reg, name,
        [PassthroughClass("Directive", attrs, raw) EXCEPT
            !.cls = cls, !.clsname = "rstfmt_" \o cls])

\* A variant that keeps the original class's option_spec.
add_directive_strict(reg, name, cls, attrs, raw) ==
    Put(reg, name,
        [PassthroughClass(cls, attrs, raw) EXCEPT
            !.option_spec = ClassAttrs(cls).option_spec])

\* directives.register_directive(name, <the class above>)
add_directive(reg, name, cls, attrs, raw) ==
    Put(reg, name, PassthroughClass(cls, attrs, raw))

(***************************************************************************)
(* The writes of register(), block by block, in program order.             *)
(***************************************************************************)
RoleW(name, fn) == [kind |-> "role", name |-> name, fn |-> fn]
DirW(name, cls, attrs, raw) ==
    [kind |-> "directive", name |-> name, cls |-> cls, attrs |-> attrs,
     raw |-> raw]
\* An attribute lookup that raises AttributeError out of register().
RaiseW == [kind |-> "raise"]

non_raw_directives ==
    {"admonition", "attention", "caution", "danger", "error", "hint",
     "important", "note", "tip", "warning", "list-table", "tabs", "tab",
     "group-tab", "code-tab"}

\* A variant with nothing excluded from the base-grammar loop.
exclude_nothing == {}

exclude_directives == {"role"}

StdRoleWrites ==
    LET rs == <<"math", "pep-reference", "rfc-reference", "subscript",
                "superscript">>
    IN  [i \in 1..Len(rs) |-> RoleW(rs[i], "generic_role")]

DownloadWrites == <<RoleW("download", "ReferenceRole")>>

\* One iteration of `for domain in _subclasses(sphinx.domains.Domain)`.
DomainWrites(domain) ==
    LET rs == domain.roles
        ds == domain.directives
    IN  SeqFlat([i \in 1..Len(rs) |->
                    IF IsReferenceRole(rs[i][2])
                    THEN <<RoleW(rs[i][1], "ReferenceRole"),
                           RoleW(domain.name \o ":" \o rs[i][1], "ReferenceRole")>>
                    ELSE <<>>])
        \o [i \in 1..Len(ds) |->
               DirW(domain.name \o ":" \o ds[i][1], ds[i][2], EmptyDict, TRUE)]

DomainLoopWrites ==
    LET doms == subclasses("Domain")
    IN  SeqFlat([i \in 1..Len(doms) |-> DomainWrites(DomainTable[doms[i]])])

DefaultDomainWrites ==
    LET ds == DomainTable["PythonDomain"].directives
    IN  [i \in 1..Len(ds) |-> DirW(ds[i][1], ds[i][2], EmptyDict, TRUE)]

RoleDirectiveWrites ==
    <<DirW("role", "Directive", [required_arguments |-> 1], TRUE)>>

BaseDirectiveWrites ==
    LET reg == directive_registry
    IN  SeqFlat([i \in 1..Len(reg) |->
                    IF reg[i][1] \in exclude_directives
                    THEN <<>>
                    ELSE <<DirW(reg[i][1], reg[i][2][2], EmptyDict,
                                reg[i][1] \notin non_raw_directives)>>])

SpecialDirectiveWrites ==
    <<DirW("glossary", "Glossary", EmptyDict, FALSE),
      DirW("literalinclude", "LiteralInclude", EmptyDict, TRUE),
      DirW("toctree", "TocTree", EmptyDict, TRUE),
      DirW("versionadded", "VersionChange", EmptyDict, TRUE),
      DirW("only", "Only", EmptyDict, TRUE),
      DirW("highlight", "Highlight", EmptyDict, TRUE),
      DirW("todo", "Todo", EmptyDict, TRUE)>>

\* The loop runs over a set, so its order is arbitrary; its writes go to
\* distinct names when the objtypes are distinct, and one order is modelled.
AutodocWrites ==
    LET ds == subclasses("Documenter")
    IN  SeqFlat([i \in 1..Len(ds) |->
                    IF DocumenterObjtype[ds[i]] # "object"
                    THEN <<DirW("auto" \o DocumenterObjtype[ds[i]],
                                "AutodocDirective", EmptyDict, FALSE)>>
                    ELSE <<>>])

\* try: import sphinx_tabs.tabs / else: four registrations, each of which
\* reads an attribute of the module.
SphinxTabsWrites(av) ==
    CASE av["sphinx_tabs.tabs"] = "absent" -> <<>>
      [] av["sphinx_tabs.tabs"] = "noattr" -> <<RaiseW>>
      [] OTHER ->
            <<DirW("tabs", "TabsDirective", EmptyDict, FALSE),
              DirW("tab", "TabDirective", EmptyDict, FALSE),
              DirW("group-tab", "GroupTabDirective", EmptyDict, FALSE),
              DirW("code-tab", "CodeTabDirective", EmptyDict, TRUE)>>

SphinxClickWrites(av) ==
    CASE av["sphinx_click"] = "absent" -> <<>>
      [] av["sphinx_click"] = "noattr" -> <<RaiseW>>
      [] OTHER -> <<DirW("click", "ClickDirective", EmptyDict, TRUE)>>

SphinxArgWrites(av) ==
    CASE av["sphinxarg.ext"] = "absent" -> <<>>
      [] av["sphinxarg.ext"] = "noattr" -> <<RaiseW>>
      [] OTHER -> <<DirW("argparse", "ArgParseDirective", EmptyDict, TRUE)>>

EspRoleNames ==
    <<"project", "project_file", "project_raw", "idf", "idf_file", "idf_raw",
      "component", "component_file", "component_raw", "example",
      "example_file", "example_raw", "link_to_translation">>

\* Two `from ... import ...` in one try: a module that is missing, or that
\* lacks the imported name, raises ImportError and the block is skipped.
EspDocsWrites(av) ==
    IF /\ av["esp_docs.esp_extensions.include_build_file"] = "ok"
       /\ av["esp_docs.generic_extensions.list_filter"] = "ok"
    THEN [i \in 1..Len(EspRoleNames) |-> RoleW(EspRoleNames[i], "ReferenceRole")]
         \o <<DirW("include-build-file", "IncludeBuildFile", EmptyDict, TRUE),
              DirW("list", "ListFilter", EmptyDict, TRUE)>>
    ELSE <<>>

\* def _add_optional_directive(directive_name, directive_cls, importlib_name)
add_optional_directive(av, directive_name, directive_cls, importlib_name) ==
    IF av[importlib_name] = "ok"
    THEN <<DirW(directive_name, directive_cls, EmptyDict, TRUE)>>
    ELSE <<>>

OptionalDirectiveWrites(av) ==
    add_optional_directive(av, "blockdiag", "Blockdiag", "sphinxcontrib.blockdiag")
    \o add_optional_directive(av, "packetdiag", "Packetdiag", "sphinxcontrib.packetdiag")
    \o add_optional_directive(av, "rackdiag", "Rackdiag", "sphinxcontrib.rackdiag")
    \o add_optional_directive(av, "seqdiag", "Seqdiag", "sphinxcontrib.seqdiag")
    \o add_optional_directive(av, "wavedrom", "WavedromDirective", "sphinxcontrib.wavedrom")
    \o add_optional_directive(av, "doxygenstruct", "DoxygenClassDirective",
                              "breathe.directives.class_like")
    \o add_optional_directive(av, "doxygenfunction", "DoxygenFunctionDirective",
                              "breathe.directives.function")

\* The blocks of register(), in program order.
Blocks ==
    <<"std_roles", "download", "domains", "default_domain", "role", "base",
      "special", "autodoc", "tabs", "click", "argparse", "esp_docs",
      "optional">>

BlockWrites(b, av) ==
    CASE b = "std_roles" -> StdRoleWrites
      [] b = "download" -> DownloadWrites
      [] b = "domains" -> DomainLoopWrites
      [] b = "default_domain" -> DefaultDomainWrites
      [] b = "role" -> RoleDirectiveWrites
      [] b = "base" -> BaseDirectiveWrites
      [] b = "special" -> SpecialDirectiveWrites
      [] b = "autodoc" -> AutodocWrites
      [] b = "tabs" -> SphinxTabsWrites(av)
      [] b = "click" -> SphinxClickWrites(av)
      [] b = "argparse" -> SphinxArgWrites(av)
      [] b = "esp_docs" -> EspDocsWrites(av)
      [] b = "optional" -> OptionalDirectiveWrites(av)

BlockIndex(b) == CHOOSE i \in 1..Len(Blocks) : Blocks[i] = b

\* Where control is after write i of block b.
After(b, i, av) ==
    IF i < Len(BlockWrites(b, av)) THEN [blk |-> b, i |-> i + 1]
    ELSE IF BlockIndex(b) = Len(Blocks) THEN [blk |-> "return", i |-> 1]
    ELSE [blk |-> Blocks[BlockIndex(b) + 1], i |-> 1]

\* The registries after one write.
ApplyWrite(regs, w) ==
    CASE w.kind = "role" -> [regs EXCEPT !.r = Put(regs.r, w.name, w.fn)]
      [] w.kind = "directive" ->
            [regs EXCEPT !.d = add_directive(regs.d, w.name, w.cls, w.attrs, w.raw)]
      [] OTHER -> regs

(***************************************************************************)
(* The state machine.                                                      *)
(***************************************************************************)
Start == [blk |-> "std_roles", i |-> 1]
Idle == [blk |-> "idle", i |-> 1]
NoInvocation == [name |-> "", option |-> "", value |-> "", error |-> "", nodes |-> <<>>]
NoRoleCall == [r |-> <<>>, text |-> <<>>, nodes |-> <<>>]

Finished(p) == pc[p].blk \in {"done", "error"}

\* The registries as the first finished run left them.
Snap == IF runs = 0 THEN [d |-> directives, r |-> rolesReg] ELSE snapshot

\* Process p performs its next write of block b, or leaves the block when
\* nothing of it is left (an empty loop, a skipped optional package).
Step(p, b) ==
    /\ LET ws == BlockWrites(b, avail)
           i == pc[p].i
       IN  IF i > Len(ws)
           THEN /\ pc' = [pc EXCEPT ![p] = After(b, i, avail)]
                /\ UNCHANGED <<directives, rolesReg, runs, snapshot>>
           ELSE IF ws[i].kind = "raise"
           THEN /\ pc' = [pc EXCEPT ![p] = [blk |-> "error", i |-> 1]]
                /\ runs' = runs + 1
                /\ snapshot' = Snap
                /\ UNCHANGED <<directives, rolesReg>>
           ELSE LET regs == ApplyWrite([d |-> directives, r |-> rolesReg], ws[i])
                IN  /\ directives' = regs.d
                    /\ rolesReg' = regs.r
                    /\ pc' = [pc EXCEPT ![p] = After(b, i, avail)]
                    /\ UNCHANGED <<runs, snapshot>>
    /\ UNCHANGED <<avail, invoked, roleCall>>

StdRoles(p) ==
    /\ pc[p].blk = "std_roles"
    /\ Step(p, "std_roles")

DownloadRole(p) ==
    /\ pc[p].blk = "download"
    /\ Step(p, "download")

DomainLoop(p) ==
    /\ pc[p].blk = "domains"
    /\ Step(p, "domains")

DefaultDomain(p) ==
    /\ pc[p].blk = "default_domain"
    /\ Step(p, "default_domain")

RoleDirective(p) ==
    /\ pc[p].blk = "role"
    /\ Step(p, "role")

BaseDirectives(p) ==
    /\ pc[p].blk = "base"
    /\ Step(p, "base")

SpecialDirectives(p) ==
    /\ pc[p].blk = "special"
    /\ Step(p, "special")

AutodocDirectives(p) ==
    /\ pc[p].blk = "autodoc"
    /\ Step(p, "autodoc")

SphinxTabs(p) ==
    /\ pc[p].blk = "tabs"
    /\ Step(p, "tabs")

SphinxClick(p) ==
    /\ pc[p].blk = "click"
    /\ Step(p, "click")

SphinxArg(p) ==
    /\ pc[p].blk = "argparse"
    /\ Step(p, "argparse")

EspDocs(p) ==
    /\ pc[p].blk = "esp_docs"
    /\ Step(p, "esp_docs")

OptionalDirectives(p) ==
    /\ pc[p].blk = "optional"
    /\ Step(p, "optional")

\* register() returns.
Return(p) ==
    /\ pc[p].blk = "return"
    /\ pc' = [pc EXCEPT ![p] = [blk |-> "done", i |-> 1]]
    /\ runs' = runs + 1
    /\ snapshot' = Snap
    /\ UNCHANGED <<directives, rolesReg, avail, invoked, roleCall>>

register(p) ==
    \/ StdRoles(p)
    \/ DownloadRole(p)
    \/ DomainLoop(p)
    \/ DefaultDomain(p)
    \/ RoleDirective(p)
    \/ BaseDirectives(p)
    \/ SpecialDirectives(p)
    \/ AutodocDirectives(p)
    \/ SphinxTabs(p)
    \/ SphinxClick(p)
    \/ SphinxArg(p)
    \/ EspDocs(p)
    \/ OptionalDirectives(p)
    \/ Return(p)

\* register() is called again in the same process.
Rerun ==
    /\ Finished(1)
    /\ runs < MaxRuns
    /\ pc' = [pc EXCEPT ![1] = Start]
    /\ UNCHANGED <<directives, rolesReg, avail, runs, snapshot, invoked, roleCall>>

\* The environments: at most MaxPresent optional modules importable, each
\* with or without the expected names, and the one with all of them.
Environments ==
    {[m \in Modules |-> IF m \in S THEN g[m] ELSE "absent"] :
        <<S, g>> \in
            UNION {{<<T, h>> : h \in [T -> {"ok", "noattr"}]} :
                      T \in {U \in SUBSET Modules : Cardinality(U) <= MaxPresent}}}
    \cup {AllOk}

InitRegistries ==
    /\ directives = EmptyDict
    /\ rolesReg = DocutilsRoles
    /\ runs = 0
    /\ snapshot = [d |-> EmptyDict, r |-> EmptyDict]
    /\ invoked = NoInvocation
    /\ roleCall = NoRoleCall

Init ==
    /\ InitRegistries
    /\ avail \in Environments
    /\ pc = [p \in Procs |-> IF p = 1 THEN Start ELSE Idle]

Next == register(1) \/ Rerun

Spec == Init /\ [][Next]_vars

(***************************************************************************)
(* Parsing a directive invocation with a registered class.                 *)
(***************************************************************************)
OptionNames == {"class", "unknown-opt"}
OptionValues == {"", "value"}

\* option_spec[name]: DummyOptionSpec returns the identity for every name; a
\* declared option_spec raises KeyError for a name it does not hold.
OptionLookup(option_spec, name) ==
    IF option_spec.kind = "dummy" \/ name \in option_spec.names
    THEN "identity"
    ELSE "KeyError"

\* The directive instance the parser builds for `.. name:: ...` with one
\* option, its arguments and content as the class's shape delimits them.
Invocation(c, name, option, value) ==
    [name |-> name,
     arguments |-> IF c.required_arguments > 0 THEN <<"argument">> ELSE <<>>,
     options |-> (option :> value),
     content |-> IF c.has_content THEN <<"content">> ELSE <<>>]

\* c.run(self): 'run': lambda self: [directive(directive=self)]
RunDirective(c, self) ==
    IF c.run = "passthrough"
    THEN <<[node |-> "directive", directive |-> self]>>
    ELSE <<[node |-> "semantic", directive |-> self]>>

\* A document invokes a registered directive with one option.
Invoke ==
    /\ Finished(1)
    /\ \E name \in DOMAIN directives, option \in OptionNames, value \in OptionValues :
          LET c == directives[name]
          IN  invoked' =
                IF OptionLookup(c.option_spec, option) = "KeyError"
                THEN [name |-> name, option |-> option, value |-> value,
                      error |-> "unknown option", nodes |-> <<>>]
                ELSE [name |-> name, option |-> option, value |-> value,
                      error |-> "",
                      nodes |-> RunDirective(c, Invocation(c, name, option, value))]
    /\ UNCHANGED <<directives, rolesReg, pc, avail, runs, snapshot, roleCall>>

InitInvoke ==
    /\ InitRegistries
    /\ avail \in {AllAbsent, AllOk}
    /\ pc = [p \in Procs |-> IF p = 1 THEN Start ELSE Idle]

NextInvoke == register(1) \/ Invoke

SpecInvoke == InitInvoke /\ [][NextInvoke]_vars

(***************************************************************************)
(* generic_role.  Role names and texts are sequences of characters.        *)
(***************************************************************************)
Lowercase ==
    <<"a", "b", "c", "d", "e", "f", "g", "h", "i", "j", "k", "l", "m",
      "n", "o", "p", "q", "r", "s", "t", "u", "v", "w", "x", "y", "z">>
Uppercase ==
    <<"A", "B", "C", "D", "E", "F", "G", "H", "I", "J", "K", "L", "M",
      "N", "O", "P", "Q", "R", "S", "T", "U", "V", "W", "X", "Y", "Z">>

LowerChar(c) ==
    IF \E i \in 1..Len(Uppercase) : Uppercase[i] = c
    THEN Lowercase[CHOOSE i \in 1..Len(Uppercase) : Uppercase[i] = c]
    ELSE c

UpperChar(c) ==
    IF \E i \in 1..Len(Lowercase) : Lowercase[i] = c
    THEN Uppercase[CHOOSE i \in 1..Len(Lowercase) : Lowercase[i] = c]
    ELSE c

\* str.lower()
lower(str) == [i \in 1..Len(str) |-> LowerChar(str[i])]

role_aliases ==
    (<<"p", "e", "p">> :> <<"P", "E", "P">>)
    @@ (<<"p", "e", "p", "-", "r", "e", "f", "e", "r", "e", "n", "c", "e">>
            :> <<"P", "E", "P">>)
    @@ (<<"r", "f", "c">> :> <<"R", "F", "C">>)
    @@ (<<"r", "f", "c", "-", "r", "e", "f", "e", "r", "e", "n", "c", "e">>
            :> <<"R", "F", "C">>)
    @@ (<<"s", "u", "b", "s", "c", "r", "i", "p", "t">> :> <<"s", "u", "b">>)
    @@ (<<"s", "u", "p", "e", "r", "s", "c", "r", "i", "p", "t">> :> <<"s", "u", "p">>)

\* dict.get(key, default)
Get(d, key, default) == IF key \in DOMAIN d THEN d[key] ELSE default

\* The null character docutils puts in place of an escaping backslash.
NUL == "\\x00"
Backslash == "\\"

\* docutils.utils.unescape(text, restore_backslashes=True)
unescape_restore(text) ==
    [i \in 1..Len(text) |-> IF text[i] = NUL THEN Backslash ELSE text[i]]

\* A variant that looks the name up as written.
generic_role_cased(r, rawtext, text) ==
    <<[node |-> "role", rawtext |-> rawtext, text |-> unescape_restore(text),
       role |-> Get(role_aliases, r, r)]>>

\* def generic_role(r, rawtext, text, *_, **__): the node list it returns
\* (the message list is always empty).
generic_role(r, rawtext, text) ==
    <<[node |-> "role", rawtext |-> rawtext, text |-> unescape_restore(text),
       role |-> Get(role_aliases, lower(r), r)]>>

\* Every spelling of s that differs from it in letter case only.
RECURSIVE CaseVariants(_)
CaseVariants(str) ==
    IF str = <<>> THEN {<<>>}
    ELSE {<<c>> \o rest :
            c \in {LowerChar(Head(str)), UpperChar(Head(str))},
            rest \in CaseVariants(Tail(str))}

\* Role names that are no alias, in some letter cases.
OtherRoleNames ==
    CaseVariants(<<"m", "a", "t", "h">>) \cup CaseVariants(<<"s", "u", "b">>)
    \cup {<<"P", "E", "P", "8">>, <<"c", ":", "e", "x", "p", "r">>}

RoleInputs == UNION {CaseVariants(k) : k \in DOMAIN role_aliases} \cup OtherRoleNames

TextChars == {"8", NUL, Backslash}
Texts == UNION {[1..n -> TextChars] : n \in 0..MaxTextLen}

\* The source text of an interpreted-text role: its name between colons,
\* then its text.
RawText(r, text) == <<":">> \o r \o <<":">> \o text

\* The parser calls generic_role for a role r with the given text.
CallGenericRole ==
    /\ roleCall = NoRoleCall
    /\ \E r \in RoleInputs, text \in Texts :
          roleCall' =
            [r |-> r, text |-> text,
             nodes |-> generic_role(r, RawText(r, text), text)]
    /\ UNCHANGED <<directives, rolesReg, pc, avail, runs, snapshot, invoked>>

InitRole ==
    /\ InitRegistries
    /\ avail = AllAbsent
    /\ pc = [p \in Procs |-> Idle]

NextRole == CallGenericRole

SpecRole == InitRole /\ [][NextRole]_vars

(***************************************************************************)
(* Two register() runs at once, interleaved write by write.                *)
(***************************************************************************)
TabsBroken == [AllOk EXCEPT !["sphinx_tabs.tabs"] = "noattr"]

InitConc ==
    /\ InitRegistries
    /\ avail \in {AllAbsent, AllOk, TabsBroken}
    /\ pc = [p \in Procs |-> Start]

NextConc == \E p \in Procs : register(p)

SpecConc == InitConc /\ [][NextConc]_vars

\* register() run alone from the registries as docutils leaves them: its
\* writes in program order, up to the first exception.
Program(av) == SeqFlat([i \in 1..Len(Blocks) |-> BlockWrites(Blocks[i], av)])

\* One write of a run that stops at its first exception.
RunWrite(acc, w) ==
    IF acc.raised THEN acc
    ELSE IF w.kind = "raise" THEN [acc EXCEPT !.raised = TRUE]
    ELSE [acc EXCEPT !.regs = ApplyWrite(acc.regs, w)]

\* The writes ws[lo..hi] in order.  The range is halved, and the first
\* half's result is bound as a value before the second half runs, which
\* keeps the evaluation shallow.
RECURSIVE Execute(_, _, _, _)
Execute(acc, ws, lo, hi) ==
    IF lo > hi THEN acc
    ELSE IF lo = hi THEN RunWrite(acc, ws[lo])
    ELSE LET mid == (lo + hi) \div 2
         IN  CHOOSE out \in {Execute(half, ws, mid + 1, hi) :
                                half \in {Execute(acc, ws, lo, mid)}} : TRUE

SingleRun(av) ==
    LET ws == Program(av)
    IN  Execute([regs |-> [d |-> EmptyDict, r |-> DocutilsRoles], raised |-> FALSE],
                ws, 1, Len(ws)).regs

(***************************************************************************)
(* What the host parser catalogs, and what the optional packages declare.  *)
(***************************************************************************)
Range(seq) == {seq[i] : i \in 1..Len(seq)}

Domains == {DomainTable[c] : c \in Range(subclasses("Domain"))}

\* Every domain directive under its qualified name, every base directive.
CatalogDirectiveNames ==
    UNION {{dom.name \o ":" \o d[1] : d \in Range(dom.directives)} : dom \in Domains}
    \cup {e[1] : e \in Range(directive_registry)}

\* Every domain role under its qualified name.
CatalogRoleNames ==
    UNION {{dom.name \o ":" \o r[1] : r \in Range(dom.roles)} : dom \in Domains}

IsPassthroughDirective(n) ==
    n \in DOMAIN directives /\ directives[n].run = "passthrough"

IsPassthroughRole(n) ==
    n \in DOMAIN rolesReg /\ rolesReg[n] \in {"generic_role", "ReferenceRole"}

Packages ==
    {"sphinx_tabs", "sphinx_click", "sphinxarg", "esp_docs", "blockdiag",
     "packetdiag", "rackdiag", "seqdiag", "wavedrom", "breathe"}

PackageModules(pkg) ==
    CASE pkg = "sphinx_tabs" -> {"sphinx_tabs.tabs"}
      [] pkg = "sphinx_click" -> {"sphinx_click"}
      [] pkg = "sphinxarg" -> {"sphinxarg.ext"}
      [] pkg = "esp_docs" -> {"esp_docs.esp_extensions.include_build_file",
                              "esp_docs.generic_extensions.list_filter"}
      [] pkg = "blockdiag" -> {"sphinxcontrib.blockdiag"}
      [] pkg = "packetdiag" -> {"sphinxcontrib.packetdiag"}
      [] pkg = "rackdiag" -> {"sphinxcontrib.rackdiag"}
      [] pkg = "seqdiag" -> {"sphinxcontrib.seqdiag"}
      [] pkg = "wavedrom" -> {"sphinxcontrib.wavedrom"}
      [] pkg = "breathe" -> {"breathe.directives.class_like",
                             "breathe.directives.function"}

PackageDirectives(pkg) ==
    CASE pkg = "sphinx_tabs" -> {"tabs", "tab", "group-tab", "code-tab"}
      [] pkg = "sphinx_click" -> {"click"}
      [] pkg = "sphinxarg" -> {"argparse"}
      [] pkg = "esp_docs" -> {"include-build-file", "list"}
      [] pkg = "breathe" -> {"doxygenstruct", "doxygenfunction"}
      [] OTHER -> {pkg}

PackageRoles(pkg) == IF pkg = "esp_docs" THEN Range(EspRoleNames) ELSE {}

PackagePresent(pkg) == \E m \in PackageModules(pkg) : avail[m] # "absent"

(***************************************************************************)
(* C1.  After register() completes, every cataloged directive name and     *)
(* every cataloged role name (each role and directive of every Domain      *)
(* subclass under its qualified name, every base-grammar directive) has a  *)
(* passthrough registration, the domain roles that are no ReferenceRole    *)
(* included.  The code registers a domain role only when its callable is   *)
(* a ReferenceRole.                                                        *)
(***************************************************************************)
C1_EveryCatalogedNameRegistered ==
    pc[1].blk = "done" =>
        /\ \A n \in CatalogDirectiveNames : IsPassthroughDirective(n)
        /\ \A n \in CatalogRoleNames : IsPassthroughRole(n)

(***************************************************************************)
(* C2.  After register() completes, a registered directive name has        *)
(* raw = FALSE exactly when it is a member of non_raw_directives.          *)
(***************************************************************************)
C2_RawFlagIsClassificationSet ==
    pc[1].blk = "done" =>
        \A n \in DOMAIN directives :
            (directives[n].raw = FALSE) <=> (n \in non_raw_directives)

(***************************************************************************)
(* C3.  After register() completes, every directive name d of the default  *)
(* domain (py) resolves, unqualified, to the wrapper of the same original  *)
(* class as "py:d".                                                        *)
(***************************************************************************)
C3_DefaultDomainUnqualified ==
    pc[1].blk = "done" =>
        \A d \in Range(DomainTable["PythonDomain"].directives) :
            /\ d[1] \in DOMAIN directives
            /\ ("py:" \o d[1]) \in DOMAIN directives
            /\ directives[d[1]].cls = directives["py:" \o d[1]].cls

(***************************************************************************)
(* C4.  Special-case entries win: from the special-case write of a name    *)
(* to the end of the run, the name maps to its bespoke registration ("role"*)
(* to the base Directive with required_arguments = 1, "glossary" to        *)
(* std.Glossary with raw = FALSE, ...); no generic step writes it after.   *)
(***************************************************************************)
\* Process p has performed write i of block b in its current run.  A run
\* raises only in the optional-package blocks, which come after b here.
Performed(p, b, i) ==
    \/ pc[p].blk \in {"return", "done", "error"}
    \/ /\ pc[p].blk \in Range(Blocks)
       /\ \/ BlockIndex(pc[p].blk) > BlockIndex(b)
          \/ pc[p].blk = b /\ pc[p].i > i

BespokeCases ==
    <<<<"glossary", "Glossary", FALSE>>, <<"literalinclude", "LiteralInclude", TRUE>>,
      <<"toctree", "TocTree", TRUE>>, <<"versionadded", "VersionChange", TRUE>>,
      <<"only", "Only", TRUE>>, <<"highlight", "Highlight", TRUE>>,
      <<"todo", "Todo", TRUE>>>>

C4_SpecialCasesWin ==
    /\ Performed(1, "role", 1) =>
          /\ IsPassthroughDirective("role")
          /\ directives["role"].cls = "Directive"
          /\ directives["role"].required_arguments = 1
          /\ directives["role"].raw = TRUE
    /\ \A i \in 1..Len(BespokeCases) :
          Performed(1, "special", i) =>
              /\ IsPassthroughDirective(BespokeCases[i][1])
              /\ directives[BespokeCases[i][1]].cls = BespokeCases[i][2]
              /\ directives[BespokeCases[i][1]].raw = BespokeCases[i][3]

\* A finished run in which the base-grammar loop, which follows the write
\* of "role", has registered the base directives.
C4_Witness ==
    /\ pc[1].blk = "done"
    /\ directives["role"].cls = "Directive"
    /\ directives["glossary"].raw = FALSE
    /\ directives["class"].cls = "Class"

(***************************************************************************)
(* C5.  generic_role, called with a spelling of an alias in any letter     *)
(* case, returns a single role node whose role is the alias's canonical    *)
(* name; "pep" with text "8" gives role "PEP" and text "8"; a name that    *)
(* is no alias in any letter case is stored as written.                    *)
(***************************************************************************)
\* a spells the lower-case key k, up to the case of its letters.
SpellsKey(a, k) ==
    /\ Len(a) = Len(k)
    /\ \A i \in 1..Len(k) : a[i] = k[i] \/ a[i] = UpperChar(k[i])

C5_AliasResolved ==
    roleCall # NoRoleCall =>
        /\ Len(roleCall.nodes) = 1
        /\ roleCall.nodes[1].node = "role"
        /\ \A k \in DOMAIN role_aliases :
              SpellsKey(roleCall.r, k) => roleCall.nodes[1].role = role_aliases[k]
        /\ (\A k \in DOMAIN role_aliases : ~SpellsKey(roleCall.r, k)) =>
              roleCall.nodes[1].role = roleCall.r
        /\ (roleCall.r = <<"p", "e", "p">> /\ roleCall.text = <<"8">>) =>
              /\ roleCall.nodes[1].role = <<"P", "E", "P">>
              /\ roleCall.nodes[1].text = <<"8">>

C5_Witness ==
    /\ roleCall.r = <<"P", "e", "p">>
    /\ roleCall.text = <<"8">>
    /\ Len(roleCall.nodes) = 1
    /\ roleCall.nodes[1].role = <<"P", "E", "P">>

(***************************************************************************)
(* C6.  For every combination of optional packages register() completes    *)
(* without error; none of an absent package's names is registered; all     *)
(* directive names of a present package are registered as passthrough      *)
(* directives, also when its module lacks the expected class or when only  *)
(* one of the modules probed together imports.                             *)
(***************************************************************************)
C6_OptionalPackages ==
    /\ pc[1].blk # "error"
    /\ pc[1].blk = "done" =>
          \A pkg \in Packages :
              IF PackagePresent(pkg)
              THEN \A n \in PackageDirectives(pkg) : IsPassthroughDirective(n)
              ELSE /\ PackageDirectives(pkg) \cap DOMAIN directives = {}
                   /\ PackageRoles(pkg) \cap DOMAIN rolesReg = {}

(***************************************************************************)
(* C7.  Running register() two or more times in sequence leaves the same   *)
(* set of registered directive names as one run, each with the same raw    *)
(* flag and the same wrapped original class.                               *)
(***************************************************************************)
C7_RepeatedRunsStable ==
    (runs >= 2 /\ Finished(1)) =>
        /\ DOMAIN directives = DOMAIN snapshot.d
        /\ \A n \in DOMAIN directives :
              /\ directives[n].raw = snapshot.d[n].raw
              /\ directives[n].cls = snapshot.d[n].cls
        /\ rolesReg = snapshot.r

\* A second run has returned, with an optional package registered and a
\* name ("class") that each run writes twice.
C7_Witness ==
    /\ runs = 2
    /\ pc[1].blk = "done"
    /\ "code-tab" \in DOMAIN directives
    /\ directives["class"].cls = "Class"

(***************************************************************************)
(* C8.  The class registered under a name has the argument counts and the  *)
(* content requirement of the class it wraps; only option_spec, run and    *)
(* raw are replaced, plus what attrs passes.  Over register() the only     *)
(* registration whose shape differs from its original class is "role",     *)
(* with required_arguments = 1.                                            *)
(***************************************************************************)
C8_ShapeInherited ==
    \A n \in DOMAIN directives :
        LET c == directives[n]
            orig == ClassAttrs(c.cls)
        IN  /\ c.optional_arguments = orig.optional_arguments
            /\ c.final_argument_whitespace = orig.final_argument_whitespace
            /\ c.has_content = orig.has_content
            /\ c.option_spec.kind = "dummy"
            /\ c.run = "passthrough"
            /\ IF n = "role"
               THEN /\ c.cls = "Directive"
                    /\ c.required_arguments = 1
                    /\ orig.required_arguments = 0
               ELSE c.required_arguments = orig.required_arguments

\* Registrations of classes with different shapes, "role" among them.
C8_Witness ==
    /\ pc[1].blk = "done"
    /\ directives["role"].required_arguments = 1
    /\ directives["versionadded"].optional_arguments = 1
    /\ directives["image"].has_content = FALSE
    /\ directives["py:function"].final_argument_whitespace = TRUE

(***************************************************************************)
(* C9.  Invoking a registered directive with any option name and value     *)
(* does not raise: the option lookup accepts the name and returns the      *)
(* value unchanged, and running the directive returns exactly one          *)
(* passthrough directive node that references the invocation, the          *)
(* original class's run step not being executed.                           *)
(***************************************************************************)
C9_AnyOptionAccepted ==
    invoked # NoInvocation =>
        /\ invoked.error = ""
        /\ Len(invoked.nodes) = 1
        /\ invoked.nodes[1].node = "directive"
        /\ invoked.nodes[1].directive.name = invoked.name
        /\ DOMAIN invoked.nodes[1].directive.options = {invoked.option}
        /\ invoked.nodes[1].directive.options[invoked.option] = invoked.value

\* An option that the wrapped class (Note) does not declare.
C9_Witness ==
    /\ invoked.name = "note"
    /\ invoked.option = "unknown-opt"
    /\ invoked.value = "value"
    /\ Len(invoked.nodes) = 1
    /\ invoked.nodes[1].directive.content = <<"content">>

(***************************************************************************)
(* C10.  When two register() runs interleave their registry writes in any  *)
(* order, then once both have finished the registries map every directive  *)
(* and role name to the same wrapped original class and raw flag as after  *)
(* a single run alone.                                                     *)
(***************************************************************************)
C10_InterleavedRunsAgree ==
    (\A p \in Procs : Finished(p)) =>
        LET alone == SingleRun(avail)
        IN  /\ DOMAIN directives = DOMAIN alone.d
            /\ \A n \in DOMAIN directives :
                  /\ directives[n].cls = alone.d[n].cls
                  /\ directives[n].raw = alone.d[n].raw
            /\ rolesReg = alone.r

\* Both runs have returned, and "class", which each run writes twice, holds
\* the later of a run's two writes.
C10_Witness ==
    /\ \A p \in Procs : pc[p].blk = "done"
    /\ directives["class"].cls = "Class"
    /\ "list" \in DOMAIN directives
====
